---- MODULE Spec2Model ----
(***************************************************************************)
(* Model of src/main.py: the in-process "take a number" queue              *)
(* (queue, number_counter, current_number and their six handlers) and the  *)
(* order submission handler over the relational store.                     *)
(*                                                                         *)
(* Spec      : requests are served one at a time, one action per handler.  *)
(* SpecCoop  : requests overlap; the queue handlers are run statement by   *)
(*             statement under the cooperative (asyncio) scheduler.        *)
(***************************************************************************)
EXTENDS Integers, Sequences, FiniteSets, TLC

\* ----- bounds --------------------------------------------------------------
\* Enqueue calls served during one process lifetime (Spec), and the largest
\* value the counter may reach with the requests in flight (SpecCoop).
MaxIssued == 4
\* Line items in one submitted order.
MaxItems == 2
\* Requests that may be in flight at once (SpecCoop).
NTasks == 3

\* Python's None: an optional value is a sequence of length 0 or 1.
None == <<>>
Some(x) == <<x>>

VARIABLES
    queue,            \* src/main.py:175   pending numbers, head first
    number_counter,   \* src/main.py:177   next number to issue
    current_number,   \* src/main.py:179   None or Some(last called number)
    db_orders,        \* rows of table "orders"
    db_items,         \* rows of table "order_items"
    order_seq,        \* autoincrement sequence of orders.id
    item_seq,         \* autoincrement sequence of order_items.id
    req,              \* the request served last
    resp,             \* its HTTP response
    issued,           \* history: numbers returned by Enqueue since start / last Reset
    called,           \* history: numbers returned by successful Dequeue since start / last Reset
    issued_all,       \* history: numbers returned by Enqueue since process start
    committed,        \* history: [id, k] of every order whose commit succeeded
    tasks,            \* SpecCoop: the coroutine of each request in flight
    running           \* SpecCoop: None or Some(task holding the event loop)

queueVars == <<queue, number_counter, current_number>>
dbVars    == <<db_orders, db_items, order_seq, item_seq, committed>>
histVars  == <<issued, called, issued_all>>
coopVars  == <<tasks, running>>
vars == <<queue, number_counter, current_number, db_orders, db_items,
          order_seq, item_seq, req, resp, issued, called, issued_all,
          committed, tasks, running>>

\* ----- requests and responses ------------------------------------------------
NoOrder == [items |-> <<>>, totalPrice |-> 0, orderTime |-> ""]
Request(op) == [op |-> op, order |-> NoOrder, fault |-> "none"]

\* A response: HTTP status, the kind of body, the numbers the body carries and
\* the detail of an HTTPException (a sequence of text fragments).
Response(status, msg, body, detail) ==
    [status |-> status, msg |-> msg, body |-> body, detail |-> detail]

\* ----- the queue handlers, one request at a time -----------------------------

\* list.pop(0): the removed element and the list that remains.
pop0_last(q) == [value |-> q[Len(q)], rest |-> SubSeq(q, 1, Len(q) - 1)]
pop0(q) == [value |-> Head(q), rest |-> Tail(q)]

enqueue_noinc ==
    /\ Len(issued_all) < MaxIssued
    /\ LET number == number_counter IN
        /\ queue' = Append(queue, number)
        /\ number_counter' = number_counter
        /\ req' = Request("enqueue")
        /\ resp' = Response(200, "enqueued", <<number>>, <<>>)
        /\ issued' = Append(issued, number)
        /\ issued_all' = Append(issued_all, number)
    /\ UNCHANGED <<current_number, called, dbVars, coopVars>>

\* POST /queue
enqueue ==
    /\ Len(issued_all) < MaxIssued
    /\ LET number == number_counter IN
        /\ queue' = Append(queue, number)
        /\ number_counter' = number_counter + 1
        /\ req' = Request("enqueue")
        /\ resp' = Response(200, "enqueued", <<number>>, <<>>)
        /\ issued' = Append(issued, number)
        /\ issued_all' = Append(issued_all, number)
    /\ UNCHANGED <<current_number, called, dbVars, coopVars>>

dequeue_clears_on_empty ==
    /\ req' = Request("dequeue")
    /\ IF queue = <<>>
       THEN /\ resp' = Response(404, "error", <<>>, <<"no customers in queue">>)
            /\ current_number' = None
            /\ UNCHANGED <<queue, number_counter, histVars>>
       ELSE /\ current_number' = Some(pop0(queue).value)
            /\ queue' = pop0(queue).rest
            /\ resp' = Response(200, "called", current_number', <<>>)
            /\ called' = called \o current_number'
            /\ UNCHANGED <<number_counter, issued, issued_all>>
    /\ UNCHANGED <<dbVars, coopVars>>

\* POST /dequeue
dequeue ==
    /\ req' = Request("dequeue")
    /\ IF queue = <<>>
       THEN /\ resp' = Response(404, "error", <<>>, <<"no customers in queue">>)
            /\ UNCHANGED <<queueVars, histVars>>
       ELSE /\ current_number' = Some(pop0(queue).value)
            /\ queue' = pop0(queue).rest
            /\ resp' = Response(200, "called", current_number', <<>>)
            /\ called' = called \o current_number'
            /\ UNCHANGED <<number_counter, issued, issued_all>>
    /\ UNCHANGED <<dbVars, coopVars>>

\* The response of GET /current in a state whose current number is c.
get_current_response(c) ==
    IF c = None
    THEN Response(404, "error", <<>>, <<"no current number">>)
    ELSE Response(200, "current_number", c, <<>>)

\* GET /current
get_current ==
    /\ req' = Request("get_current")
    /\ resp' = get_current_response(current_number)
    /\ UNCHANGED <<queueVars, histVars, dbVars, coopVars>>

\* GET /queue/length
get_queue_length ==
    /\ req' = Request("get_queue_length")
    /\ resp' = Response(200, "length", <<Len(queue)>>, <<>>)
    /\ UNCHANGED <<queueVars, histVars, dbVars, coopVars>>

\* GET /queue
get_queue ==
    /\ req' = Request("get_queue")
    /\ resp' = Response(200, "queue", queue, <<>>)
    /\ UNCHANGED <<queueVars, histVars, dbVars, coopVars>>

reset_queue_keeps_counter ==
    /\ queue' = <<>>
    /\ number_counter' = number_counter
    /\ current_number' = None
    /\ req' = Request("reset")
    /\ resp' = Response(200, "reset", <<>>, <<>>)
    /\ issued' = <<>>
    /\ called' = <<>>
    /\ UNCHANGED <<issued_all, dbVars, coopVars>>

reset_queue_keeps_current ==
    /\ queue' = <<>>
    /\ number_counter' = 1
    /\ current_number' = current_number
    /\ req' = Request("reset")
    /\ resp' = Response(200, "reset", <<>>, <<>>)
    /\ issued' = <<>>
    /\ called' = <<>>
    /\ UNCHANGED <<issued_all, dbVars, coopVars>>

\* POST /reset
reset_queue ==
    /\ queue' = <<>>
    /\ number_counter' = 1
    /\ current_number' = None
    /\ req' = Request("reset")
    /\ resp' = Response(200, "reset", <<>>, <<>>)
    /\ issued' = <<>>
    /\ called' = <<>>
    /\ UNCHANGED <<issued_all, dbVars, coopVars>>

\* ----- order submission ----------------------------------------------------------

\* Line items a request may carry (price in tenths: 35 is 3.5).
ItemChoices == { [id |-> 1, quantity |-> 2, price |-> 35],
                 [id |-> 2, quantity |-> 1, price |-> 10] }

\* Well-typed request bodies of POST /submit-order/.
Orders == { [items |-> s, totalPrice |-> 70, orderTime |-> "2024-01-01T00:00:00"] :
            s \in UNION { [1..n -> ItemChoices] : n \in 0..MaxItems } }

\* What the store does to the request: nothing, fail the commit, fail the refresh.
Faults == {"none", "commit", "refresh"}

\* Classes that derive from a declarative base and so inherit its keyword
\* constructor.  OrderDB and OrderItemDB are declared as plain classes.
MappedClasses == {}

\* cls(**kwargs) in Python: a class without __init__ takes no arguments.
Construct(cls, kwargs) ==
    IF kwargs = {} \/ cls \in MappedClasses
    THEN [ok |-> TRUE, err |-> ""]
    ELSE [ok |-> FALSE, err |-> "TypeError: " \o cls \o "() takes no arguments"]

SubmitFailure_swallowed(e) ==
    Response(200, "Order submitted successfully", <<>>, <<>>)

\* except Exception as e: rollback, then HTTPException(500, detail=...)
SubmitFailure(e) ==
    Response(500, "error", <<>>, <<"Failed to submit order: ", e>>)

\* The handler from its try block to its return or raise: the response and the
\* rows the commit adds to the two tables.
SubmitOutcome(order, fault) ==
    LET k == Len(order.items)
        db_order == Construct("OrderDB", {"order_time", "total_price"})
        db_order_item == Construct("OrderItemDB", {"item_id", "quantity", "price"})
        order_row == [id |-> order_seq, order_time |-> order.orderTime,
                      total_price |-> order.totalPrice]
        \* order_id is never assigned and no relationship is set: it stays NULL
        item_rows == { [id |-> item_seq + i - 1, order_id |-> None,
                        item_id |-> order.items[i].id,
                        quantity |-> order.items[i].quantity,
                        price |-> order.items[i].price] : i \in 1..k }
        nothing == [orders |-> {}, items |-> {}]
        written == [orders |-> {order_row}, items |-> item_rows]
    IN  IF ~db_order.ok
        THEN [resp |-> SubmitFailure(db_order.err), rows |-> nothing]
        ELSE IF k > 0 /\ ~db_order_item.ok
        THEN [resp |-> SubmitFailure(db_order_item.err), rows |-> nothing]
        ELSE IF fault = "commit"
        THEN [resp |-> SubmitFailure("commit failed"), rows |-> nothing]
        ELSE IF fault = "refresh"
        THEN [resp |-> SubmitFailure("refresh failed"), rows |-> written]
        ELSE [resp |-> Response(200, "Order submitted successfully",
                                <<order_row.id>>, <<>>),
              rows |-> written]

\* POST /submit-order/
submit_order ==
    \E order \in Orders, fault \in Faults :
        LET out == SubmitOutcome(order, fault) IN
            /\ req' = [op |-> "submit_order", order |-> order, fault |-> fault]
            /\ resp' = out.resp
            /\ db_orders' = db_orders \cup out.rows.orders
            /\ db_items' = db_items \cup out.rows.items
            /\ order_seq' = order_seq + Cardinality(out.rows.orders)
            /\ item_seq' = item_seq + Cardinality(out.rows.items)
            /\ committed' = committed \cup
                   { [id |-> o.id, k |-> Len(order.items)] : o \in out.rows.orders }
            /\ UNCHANGED <<queueVars, histVars, coopVars>>

\* ----- initial state -----------------------------------------------------------
IdleTask == [kind |-> "none", pc |-> "idle", number |-> 0]

Init ==
    /\ queue = <<>>
    /\ number_counter = 1
    /\ current_number = None
    /\ db_orders = {}
    /\ db_items = {}
    /\ order_seq = 1
    /\ item_seq = 1
    /\ req = Request("start")
    /\ resp = Response(0, "none", <<>>, <<>>)
    /\ issued = <<>>
    /\ called = <<>>
    /\ issued_all = <<>>
    /\ committed = {}
    /\ tasks = [t \in 1..NTasks |-> IdleTask]
    /\ running = None

Next ==
    \/ enqueue
    \/ dequeue
    \/ get_current
    \/ get_queue_length
    \/ get_queue
    \/ reset_queue
    \/ submit_order

Spec == Init /\ [][Next]_vars

\* ----- the queue handlers under the cooperative scheduler ----------------------
\* A task is the coroutine of one request.  pc names the source line of the
\* statement it executes next; number is enqueue's local variable.

\* Statements of the queue handlers that are await expressions, where the
\* coroutine hands the event loop back before it goes on.  enqueue, dequeue
\* and reset_queue contain none.
SuspensionPoints_await_in_enqueue == {"e186"}
SuspensionPoints == {}

EntryPC == [enqueue |-> "e185", dequeue |-> "d194", reset |-> "r220"]
QueueOps == {"enqueue", "dequeue", "reset"}

\* The task has been started and has not returned yet.
InHandler(t) == tasks[t].pc \notin {"idle", "e185", "d194", "r220"}

\* The event loop gives the thread to t: no coroutine holds it, or t does.
CanRun(t) == tasks[t].pc # "idle" /\ (running = None \/ running = Some(t))

\* t executed a statement and continues at pc (or returned: pc = "idle").
Goto(t, pc, number) ==
    /\ tasks' = [tasks EXCEPT ![t] = [kind |-> IF pc = "idle" THEN "none" ELSE @.kind,
                                      pc |-> pc, number |-> number]]
    /\ running' = IF pc = "idle" \/ pc \in SuspensionPoints THEN None ELSE Some(t)

InFlight(kind) == Cardinality({t \in 1..NTasks : tasks[t].kind = kind})

\* A client issues a request; its coroutine is created, not yet run.
Arrive ==
    \E t \in 1..NTasks, kind \in QueueOps :
        /\ tasks[t].pc = "idle"
        /\ kind = "enqueue" => number_counter + InFlight("enqueue") <= MaxIssued
        /\ tasks' = [tasks EXCEPT ![t] = [kind |-> kind, pc |-> EntryPC[kind], number |-> 0]]
        /\ UNCHANGED <<running, queueVars, histVars, dbVars, req, resp>>

\* number = number_counter
E185 ==
    \E t \in 1..NTasks :
        /\ CanRun(t) /\ tasks[t].pc = "e185"
        /\ Goto(t, "e186", number_counter)
        /\ UNCHANGED <<queueVars, histVars, dbVars, req, resp>>

\* queue.append(number)
E186 ==
    \E t \in 1..NTasks :
        /\ CanRun(t) /\ tasks[t].pc = "e186"
        /\ queue' = Append(queue, tasks[t].number)
        /\ Goto(t, "e187", tasks[t].number)
        /\ UNCHANGED <<number_counter, current_number, histVars, dbVars, req, resp>>

\* number_counter += 1
E187 ==
    \E t \in 1..NTasks :
        /\ CanRun(t) /\ tasks[t].pc = "e187"
        /\ number_counter' = number_counter + 1
        /\ Goto(t, "e188", tasks[t].number)
        /\ UNCHANGED <<queue, current_number, histVars, dbVars, req, resp>>

\* return {"message": ... number ...}
E188 ==
    \E t \in 1..NTasks :
        /\ CanRun(t) /\ tasks[t].pc = "e188"
        /\ issued' = Append(issued, tasks[t].number)
        /\ req' = Request("enqueue")
        /\ resp' = Response(200, "enqueued", <<tasks[t].number>>, <<>>)
        /\ Goto(t, "idle", 0)
        /\ UNCHANGED <<queueVars, called, issued_all, dbVars>>

\* if not queue: raise HTTPException(404)
D194 ==
    \E t \in 1..NTasks :
        /\ CanRun(t) /\ tasks[t].pc = "d194"
        /\ IF queue = <<>>
           THEN /\ req' = Request("dequeue")
                /\ resp' = Response(404, "error", <<>>, <<"no customers in queue">>)
                /\ Goto(t, "idle", 0)
           ELSE /\ Goto(t, "d196", 0)
                /\ UNCHANGED <<req, resp>>
        /\ UNCHANGED <<queueVars, histVars, dbVars>>

\* current_number = queue.pop(0)   (IndexError on an empty list ends the request)
D196 ==
    \E t \in 1..NTasks :
        /\ CanRun(t) /\ tasks[t].pc = "d196"
        /\ IF queue = <<>>
           THEN /\ req' = Request("dequeue")
                /\ resp' = Response(500, "error", <<>>, <<"IndexError">>)
                /\ Goto(t, "idle", 0)
                /\ UNCHANGED <<queue, current_number>>
           ELSE /\ current_number' = Some(pop0(queue).value)
                /\ queue' = pop0(queue).rest
                /\ Goto(t, "d197", 0)
                /\ UNCHANGED <<req, resp>>
        /\ UNCHANGED <<number_counter, histVars, dbVars>>

\* return {"message": ... current_number ...}
D197 ==
    \E t \in 1..NTasks :
        /\ CanRun(t) /\ tasks[t].pc = "d197"
        /\ called' = called \o current_number
        /\ req' = Request("dequeue")
        /\ resp' = Response(200, "called", current_number, <<>>)
        /\ Goto(t, "idle", 0)
        /\ UNCHANGED <<queueVars, issued, issued_all, dbVars>>

\* queue = []
R220 ==
    \E t \in 1..NTasks :
        /\ CanRun(t) /\ tasks[t].pc = "r220"
        /\ queue' = <<>>
        /\ issued' = <<>>
        /\ called' = <<>>
        /\ Goto(t, "r221", 0)
        /\ UNCHANGED <<number_counter, current_number, issued_all, dbVars, req, resp>>

\* number_counter = 1
R221 ==
    \E t \in 1..NTasks :
        /\ CanRun(t) /\ tasks[t].pc = "r221"
        /\ number_counter' = 1
        /\ Goto(t, "r222", 0)
        /\ UNCHANGED <<queue, current_number, histVars, dbVars, req, resp>>

\* current_number = None
R222 ==
    \E t \in 1..NTasks :
        /\ CanRun(t) /\ tasks[t].pc = "r222"
        /\ current_number' = None
        /\ Goto(t, "r223", 0)
        /\ UNCHANGED <<queue, number_counter, histVars, dbVars, req, resp>>

\* return {"message": ...}
R223 ==
    \E t \in 1..NTasks :
        /\ CanRun(t) /\ tasks[t].pc = "r223"
        /\ req' = Request("reset")
        /\ resp' = Response(200, "reset", <<>>, <<>>)
        /\ Goto(t, "idle", 0)
        /\ UNCHANGED <<queueVars, histVars, dbVars>>

NextCoop ==
    \/ Arrive
    \/ E185 \/ E186 \/ E187 \/ E188
    \/ D194 \/ D196 \/ D197
    \/ R220 \/ R221 \/ R222 \/ R223

SpecCoop == Init /\ [][NextCoop]_vars

\* ----- properties --------------------------------------------------------------

IsDequeueStep == req'.op = "dequeue"
StrictlyIncreasing(s) == \A i, j \in 1..Len(s) : i < j => s[i] < s[j]
NoDuplicates(s) == \A i, j \in 1..Len(s) : i # j => s[i] # s[j]

\* C1: a Dequeue served on a non-empty queue succeeds, returns the head the
\* queue had before the call, makes it the current number, and leaves exactly
\* the previous queue without its head.
C1_DequeueFIFO ==
    [][ (IsDequeueStep /\ queue # <<>>) =>
            /\ resp'.status = 200
            /\ resp'.body = <<Head(queue)>>
            /\ current_number' = Some(Head(queue))
            /\ queue' = Tail(queue) ]_vars

\* Enqueue(->1), Enqueue(->2), Dequeue returned 1 and the snapshot is [2].
C1_Witness ==
    /\ req.op = "dequeue" /\ resp.status = 200
    /\ issued = <<1, 2>> /\ resp.body = <<1>> /\ queue = <<2>>

\* C2: from process start or a Reset, while no Dequeue has succeeded, the N
\* Enqueue calls served so far returned 1..N in order, the latest returned N,
\* Get Queue Snapshot returns [1..N] and Get Length returns N.
C2_EnqueueRun ==
    called = <<>> =>
        /\ issued = [i \in 1..Len(issued) |-> i]
        /\ req.op = "enqueue" => resp.body = <<Len(issued)>>
        /\ req.op = "get_queue" => resp.body = [i \in 1..Len(issued) |-> i]
        /\ req.op = "get_queue_length" => resp.body = <<Len(issued)>>

\* Three Enqueue calls after a Reset, then the snapshot was read.
C2_Witness ==
    /\ req.op = "get_queue" /\ called = <<>>
    /\ Len(issued) = 3 /\ Len(issued_all) > Len(issued)

\* C3: a Dequeue served on an empty queue answers 404 and changes none of
\* queue, number_counter, current_number.
C3_DequeueEmpty ==
    [][ (IsDequeueStep /\ queue = <<>>) =>
            /\ resp'.status = 404
            /\ UNCHANGED queueVars ]_vars

\* A failed Dequeue in a state with a current number and an advanced counter.
C3_Witness ==
    /\ req.op = "dequeue" /\ resp.status = 404
    /\ current_number # None /\ number_counter > 1

\* C4: Reset is always possible and succeeds; right after it the snapshot is
\* [], Get Current answers 404, the counter is 1, and if the next request is
\* Get Queue Snapshot, Get Current or Enqueue it returns [], 404 and 1.
C4_Reset ==
    [][ /\ ENABLED reset_queue
        /\ req'.op = "reset" =>
            /\ resp'.status = 200
            /\ queue' = <<>>
            /\ get_current_response(current_number').status = 404
            /\ number_counter' = 1
        /\ req.op = "reset" =>
            /\ req'.op = "get_queue" => resp'.body = <<>>
            /\ req'.op = "get_current" => resp'.status = 404
            /\ req'.op = "enqueue" => resp'.body = <<1>> ]_vars

\* Two numbers were issued and one called, Reset, and the next Enqueue got 1.
C4_Witness ==
    /\ req.op = "enqueue" /\ resp.body = <<1>>
    /\ issued_all = <<1, 2, 1>> /\ current_number = None

\* C5 as stated: over the whole process lifetime every number returned by an
\* Enqueue is greater than every number returned by an earlier Enqueue.
C5_NeverReused == StrictlyIncreasing(issued_all)

\* C5 as amended: the numbers returned by Enqueue since process start or the
\* last Reset are strictly increasing.
C5_IncreasingSinceReset == StrictlyIncreasing(issued)

\* Two numbers issued after a Reset that followed earlier issues.
C5_Witness ==
    /\ req.op = "enqueue" /\ Len(issued) >= 2 /\ Len(issued_all) > Len(issued)

\* C6: in every state Get Current answers 404 exactly when no Dequeue has
\* succeeded since process start or the last Reset, and otherwise answers 200
\* with the number the latest successful Dequeue returned; a Get Current just
\* served gave that answer.
C6_GetCurrent ==
    LET r == get_current_response(current_number) IN
        /\ r.status = 404 <=> called = <<>>
        /\ called # <<>> => r.status = 200 /\ r.body = <<called[Len(called)]>>
        /\ req.op = "get_current" => resp = r

\* Get Current answered after a Dequeue and a later Enqueue.
C6_Witness ==
    /\ req.op = "get_current" /\ resp.status = 200
    /\ resp.body = <<1>> /\ queue = <<2, 3>>

\* C7 as stated: a Submit Order served while the store is reachable answers
\* 200 with a new order id, adds exactly one parent row carrying that id and
\* exactly k child rows, each linked to it.
C7_SubmitSucceeds ==
    [][ (req'.op = "submit_order" /\ req'.fault = "none") =>
            /\ resp'.status = 200
            /\ resp'.msg = "Order submitted successfully"
            /\ Len(resp'.body) = 1
            /\ resp'.body[1] \notin { o.id : o \in db_orders }
            /\ db_orders \subseteq db_orders'
            /\ { o.id : o \in db_orders' \ db_orders } = { resp'.body[1] }
            /\ Cardinality(db_orders' \ db_orders) = 1
            /\ db_items \subseteq db_items'
            /\ Cardinality(db_items' \ db_items) = Len(req'.order.items)
            /\ \A it \in db_items' \ db_items : it.order_id = Some(resp'.body[1]) ]_vars

\* Every committed order is in the store with all its k child rows, and every
\* child row in the store belongs to a parent row in the store.
StoreWhole ==
    /\ \A it \in db_items : \E o \in db_orders : it.order_id = Some(o.id)
    /\ \A c \in committed :
        /\ \E o \in db_orders : o.id = c.id
        /\ Cardinality({ it \in db_items : it.order_id = Some(c.id) }) = c.k

\* C8: a Submit Order that does not succeed answers 500 with the text of the
\* underlying failure and leaves both tables as they were; the store never
\* holds child rows without their parent or a parent without all its children.
C8_AllOrNothing ==
    [][ /\ (req'.op = "submit_order" /\ resp'.msg # "Order submitted successfully") =>
            /\ resp'.status = 500
            /\ Len(resp'.detail) = 2
            /\ resp'.detail[1] = "Failed to submit order: "
            /\ resp'.detail[2] # ""
            /\ db_orders' = db_orders
            /\ db_items' = db_items
        /\ (req'.op = "submit_order" /\ resp'.msg = "Order submitted successfully") =>
            resp'.status = 200 /\ Len(resp'.body) = 1
        /\ StoreWhole' ]_vars

\* A submission of two line items failed.
C8_Witness ==
    /\ req.op = "submit_order" /\ Len(req.order.items) = 2
    /\ resp.status = 500 /\ db_orders = {} /\ db_items = {}

Quiescent == \A t \in 1..NTasks : ~InHandler(t)

\* C9: with overlapping requests under the cooperative scheduler no two
\* handlers are ever in progress together; between two Resets no number is
\* returned by two Enqueue calls or by two Dequeue calls, and between handlers
\* the numbers issued are exactly those called followed by those pending.
C9_Serializable ==
    /\ Cardinality({ t \in 1..NTasks : InHandler(t) }) <= 1
    /\ NoDuplicates(issued)
    /\ NoDuplicates(called)
    /\ Quiescent => issued = called \o queue

\* An Enqueue is in progress while another Enqueue and a Dequeue wait, after
\* earlier numbers were issued and called.
C9_Witness ==
    /\ \E t, u, v \in 1..NTasks :
        /\ tasks[t].pc = "e187"
        /\ tasks[u].pc = "e185"
        /\ tasks[v].pc = "d194"
    /\ Len(issued) >= 2 /\ called # <<>>

\* C10: the pending queue is the run (counter - length) .. (counter - 1), the
\* counter is at least 1, and a present current number is counter - length - 1.
C10_QueueShape ==
    /\ number_counter >= 1
    /\ queue = [i \in 1..Len(queue) |-> number_counter - Len(queue) + i - 1]
    /\ current_number # None =>
        /\ current_number = Some(number_counter - Len(queue) - 1)
        /\ \A i \in 1..Len(queue) : current_number[1] < queue[i]
        /\ queue # <<>> => current_number[1] = Head(queue) - 1

\* A number has been called and two are pending.
C10_Witness ==
    /\ current_number = Some(2) /\ queue = <<3, 4>> /\ number_counter = 5
====
